---- MODULE Spec2Model ----
(***************************************************************************)
(* Model of the sale-recording core of src/main.py: installment date       *)
(* validation, the discount allocator, record_sale, the installment        *)
(* status updates, delete_sale and the checkout handler register_sale.     *)
(*                                                                         *)
(* Money is counted in whole cents.  round(x, 2) on a float is modelled by *)
(* RoundCents on the exact quotient; on an exact half cent the direction   *)
(* Python takes depends on the binary representation of the operands       *)
(* (round(0.05/2, 2) = 0.03 but round(0.09/2, 2) = 0.04), so the direction *)
(* is an input of the model (the flag "up").                               *)
(*                                                                         *)
(* The store is the SQLite file the program opens: ids are row ids, the    *)
(* tables carry the columns the statements of the program name.            *)
(***************************************************************************)
EXTENDS Integers, Sequences, FiniteSets, TLC

VARIABLES
    products,        \* table products: id -> price in cents
    sales,           \* table sales: set of rows
    sale_payments,   \* table sale_payments: set of rows
    payment_seq,     \* AUTOINCREMENT counter of sale_payments
    activity_log,    \* table activity_log: sequence of action codes
    now,             \* the wall clock, in seconds
    cart_items,      \* the cart of the checkout form
    result,          \* the last call: its name, arguments and return value
    dates_call,      \* a call of validate_installment_dates and its result
    alloc_call,      \* a call of the discount allocator, or of the split of a
                     \* total into installments, and its result
    db_lock,         \* the re-entrant lock db_lock: its owner and its depth
    pc,              \* thread -> the statement the thread is at
    frame,           \* thread -> the locals of the call the thread is in
    users,           \* table users: id -> username and password
    FAILED_LOGIN_ATTEMPTS,  \* username -> failures counted, time of the last
    logged_user      \* state.logged_user: the username logged in, or None

vars == <<products, sales, sale_payments, payment_seq, activity_log, now,
          cart_items, result, dates_call, alloc_call, db_lock, pc, frame,
          users, FAILED_LOGIN_ATTEMPTS, logged_user>>

thread_vars == <<db_lock, pc, frame>>

login_vars == <<users, FAILED_LOGIN_ATTEMPTS, logged_user>>

store_vars == <<products, sales, sale_payments, payment_seq, activity_log,
                now, cart_items, result>>

-----------------------------------------------------------------------------
(* Bounds of the model *)

MaxDates == 3        \* longest list of dates enumerated entry by entry
MaxItems == 3        \* longest cart handed to the allocator
MaxLineTotal == 3    \* largest line total of an allocator input, in cents
MaxTime == 1         \* last clock value; the clock starts at 0
MaxSales == 2        \* largest row id of the table sales
MaxInst == 2         \* largest in-range installment count recorded
MaxPayments == 3     \* most rows ever inserted into sale_payments
MaxLog == 3          \* most rows of activity_log

(* Program constants *)

MAX_INSTALLMENTS == 12
OverRange == MAX_INSTALLMENTS + 1   \* an installment count out of range

-----------------------------------------------------------------------------
(* Date strings.  A string is represented by its shape: empty, blank      *)
(* (white space only), YYYY-MM-DD ("iso"), DD/MM/YYYY ("br"), or other     *)
(* text; for the two date shapes the numbers written in it.                *)

EmptyStr == [fmt |-> "empty", y |-> 0, m |-> 0, d |-> 0]
BlankStr == [fmt |-> "blank", y |-> 0, m |-> 0, d |-> 0]
TextStr  == [fmt |-> "text", y |-> 0, m |-> 0, d |-> 0]

IsoStr(y, m, d) == [fmt |-> "iso", y |-> y, m |-> m, d |-> d]
BrStr(d, m, y)  == [fmt |-> "br", y |-> y, m |-> m, d |-> d]

DateStrings ==
    {EmptyStr, BlankStr, TextStr}
      \cup {IsoStr(y, m, d) : y \in {2024, 2025}, m \in {2, 13}, d \in {29}}
      \cup {BrStr(d, m, y) : y \in {2024, 2025}, m \in {2}, d \in {29}}

IsLeap(y) == (y % 4 = 0 /\ y % 100 # 0) \/ y % 400 = 0

DaysInMonth(y, m) ==
    IF m = 2 THEN (IF IsLeap(y) THEN 29 ELSE 28)
    ELSE IF m \in {4, 6, 9, 11} THEN 30 ELSE 31

\* datetime.strptime(s, "%Y-%m-%d") succeeds
ParsesYmd(s) ==
    /\ s.fmt = "iso"
    /\ s.y >= 1
    /\ s.m \in 1..12
    /\ s.d \in 1..DaysInMonth(s.y, s.m)

validate_date_ymd(date_str) ==
    IF date_str.fmt = "empty" THEN FALSE ELSE ParsesYmd(date_str)

convert_br_to_iso(date_str) ==
    IF date_str.fmt = "br"
    THEN IsoStr(date_str.y, date_str.m, date_str.d)
    ELSE date_str

\* str(x).strip() == "" or not x
IsBlank(s) == s.fmt \in {"empty", "blank"}

\* the for loop of validate_installment_dates, from entry i on
RECURSIVE DatesLoop(_, _)
DatesLoop(dates, i) ==
    IF i > Len(dates) THEN TRUE
    ELSE IF dates[i].fmt = "empty" THEN FALSE
    ELSE IF ~validate_date_ymd(convert_br_to_iso(dates[i])) THEN FALSE
    ELSE DatesLoop(dates, i + 1)

\* the single-entry rule with the test of the length left out
SingleBlank_anylen(dates) == Len(dates) >= 1 /\ IsBlank(dates[1])

\* len(dates) == 1 and (not dates[0] or str(dates[0]).strip() == "")
SingleBlank(dates) == Len(dates) = 1 /\ IsBlank(dates[1])

validate_installment_dates(dates) ==
    IF Len(dates) > MAX_INSTALLMENTS THEN FALSE
    ELSE IF SingleBlank(dates) THEN TRUE
    ELSE DatesLoop(dates, 1)

\* validate_date_string: the string the form hands on, stripped and, when
\* it is a DD/MM/YYYY date of the calendar, rewritten as YYYY-MM-DD
validate_date_string(date_str) ==
    IF IsBlank(date_str) THEN EmptyStr
    ELSE IF ParsesYmd(date_str) THEN date_str
    ELSE IF date_str.fmt = "br" /\ ParsesYmd(convert_br_to_iso(date_str))
         THEN convert_br_to_iso(date_str)
    ELSE date_str

read_installment_dates(fields) ==
    [i \in 1..Len(fields) |-> validate_date_string(fields[i])]

-----------------------------------------------------------------------------
(* Lists of dates handed to validate_installment_dates *)

RECURSIVE SeqsUpTo(_, _)
SeqsUpTo(S, n) ==
    IF n = 0 THEN {<<>>}
    ELSE LET shorter == SeqsUpTo(S, n - 1)
         IN shorter \cup {Append(s, x) : s \in {t \in shorter : Len(t) = n - 1}, x \in S}

GoodDate == IsoStr(2024, 2, 29)

\* a list of n good dates with entry k replaced by x (k = 0: none replaced)
LongList(n, k, x) == [i \in 1..n |-> IF i = k THEN x ELSE GoodDate]

DateLists ==
    SeqsUpTo(DateStrings, MaxDates)
      \cup {LongList(n, k, x) : n \in {MAX_INSTALLMENTS, OverRange},
                                k \in {0, 1, MAX_INSTALLMENTS},
                                x \in {EmptyStr, BrStr(29, 2, 2024), TextStr}}

-----------------------------------------------------------------------------
(* Money *)

\* round(num / den, 2) in cents, for num >= 0 and den > 0; up is the
\* direction taken on an exact half cent
RoundCents(num, den, up) ==
    LET q == num \div den
        r == num % den
    IN  IF 2 * r < den THEN q
        ELSE IF 2 * r > den THEN q + 1
        ELSE IF up THEN q + 1 ELSE q

\* a price is a fraction of cents; den = 0 stands for None
NoPrice == [num |-> 0, den |-> 0]
Price(cents) == [num |-> cents, den |-> 1]

\* unit_price * quantity
LineTotal(unit_price, quantity) == (unit_price.num * quantity) \div unit_price.den

RECURSIVE SumSeq(_)
SumSeq(s) == IF s = <<>> THEN 0 ELSE Head(s) + SumSeq(Tail(s))

\* the rounding difference given to the first installment
InstallmentAmounts_first(total, n_inst, up) ==
    LET base == RoundCents(total, n_inst, up)
    IN  [i \in 1..n_inst |-> IF i = 1 THEN total - (n_inst - 1) * base ELSE base]

\* lines 562-566 of record_sale: equal installments, the last one takes
\* the rounding difference
InstallmentAmounts(total, n_inst, up) ==
    LET base == RoundCents(total, n_inst, up)
        amounts == [i \in 1..n_inst |-> base]
        diff == total - SumSeq(amounts)
    IN  [i \in 1..n_inst |-> IF i = n_inst THEN amounts[i] + diff ELSE amounts[i]]

-----------------------------------------------------------------------------
(* The discount allocator.  An item of a cart is a record with the fields   *)
(* product_id, quantity, unit_price and total_price; ups[i] is the          *)
(* direction round takes for item i on an exact half cent.                  *)

CartItem(product_id, quantity, unit_price) ==
    [product_id |-> product_id,
     quantity |-> quantity,
     unit_price |-> unit_price,
     total_price |-> LineTotal(unit_price, quantity)]

\* sum(item['total_price'] for item in items)
TotalBefore(items) == SumSeq([i \in 1..Len(items) |-> items[i].total_price])

\* max(0, total_before - discount)
FinalTotal(total_before, discount) ==
    IF total_before - discount > 0 THEN total_before - discount ELSE 0

\* round(item['total_price'] * factor, 2)
Scaled(item, total_before, final_total, discount, up) ==
    IF total_before > 0 /\ discount > 0
    THEN RoundCents(item.total_price * final_total, total_before, up)
    ELSE item.total_price

\* the last item given its own rounded share
LastAdjTotal_scaled(remaining, scaled) == scaled

\* adj_total = round(remaining, 2), for the last item
LastAdjTotal(remaining, scaled) == remaining

\* the unit price rounded to whole cents
AdjUnit_rounded(adj_total, quantity) ==
    IF quantity # 0 THEN Price(RoundCents(adj_total, quantity, TRUE)) ELSE Price(0)

\* (adj_total / item['quantity']) if item['quantity'] else 0
AdjUnit(adj_total, quantity) ==
    IF quantity # 0 THEN [num |-> adj_total, den |-> quantity] ELSE Price(0)

distribute_discount_tuples(items, discount, ups) ==
    LET n == Len(items)
        total_before == TotalBefore(items)
        final_total == FinalTotal(total_before, discount)
        scaled == [i \in 1..n |->
                     Scaled(items[i], total_before, final_total, discount, ups[i])]
        remaining == final_total - SumSeq(SubSeq(scaled, 1, n - 1))
        adj_total == [i \in 1..n |->
                        IF i < n THEN scaled[i]
                        ELSE LastAdjTotal(remaining, scaled[i])]
    IN  [adjusted |-> [i \in 1..n |->
                         [item |-> items[i],
                          adj_unit |-> AdjUnit(adj_total[i], items[i].quantity),
                          adj_total |-> adj_total[i]]],
         final_total |-> final_total]

distribute_discount_dicts(items, discount, ups) ==
    LET n == Len(items)
        total_before == TotalBefore(items)
        final_total == FinalTotal(total_before, discount)
        scaled == [i \in 1..n |->
                     Scaled(items[i], total_before, final_total, discount, ups[i])]
        remaining == final_total - SumSeq(SubSeq(scaled, 1, n - 1))
        adj_total == [i \in 1..n |->
                        IF i < n THEN scaled[i]
                        ELSE LastAdjTotal(remaining, scaled[i])]
    IN  [adjusted |-> [i \in 1..n |->
                         [product_id |-> items[i].product_id,
                          quantity |-> items[i].quantity,
                          unit_price |-> AdjUnit(adj_total[i], items[i].quantity),
                          total_price |-> adj_total[i]]],
         final_total |-> final_total]

-----------------------------------------------------------------------------
(* The store *)

NullTs == -2         \* paid_date of a row inserted without one (NULL)
EmptyTs == -1        \* paid_date = ''
NullMethod == "NULL" \* payment_method of a row inserted without one
NoMethod == "None"   \* the argument payment_method=None
NoDate == NullTs     \* the argument date_str=None

\* payment_method or ''
OrEmpty(payment_method) == IF payment_method = NoMethod THEN "" ELSE payment_method

SetMax(S) == IF S = {} THEN 0 ELSE CHOOSE x \in S : \A y \in S : y <= x

\* cur.lastrowid after the insert into sales: the largest row id plus one
LastRowId(rows) == SetMax({s.id : s \in rows}) + 1

NextSaleId == LastRowId(sales)

PaymentsOf(sale_id) == {p \in sale_payments : p.sale_id = sale_id}

\* int(num_installments) if num_installments else 1
InstCount(num_installments) == IF num_installments = 0 THEN 1 ELSE num_installments

\* every installment given the first due date
DueOf_first(inst_dates, i) == IF Len(inst_dates) >= 1 THEN inst_dates[1] ELSE EmptyStr

\* inst_dates[idx] if idx < len(inst_dates) else ''
DueOf(inst_dates, i) == IF i <= Len(inst_dates) THEN inst_dates[i] ELSE EmptyStr

\* log_activity: one row appended, unless the call raises
LogAppend(log, action, raises) == IF raises THEN log ELSE Append(log, action)

\* a single installment given a row as well
HasInstallments_single(n_inst) == n_inst >= 1

\* if n_inst > 1:
HasInstallments(n_inst) == n_inst > 1

\* the rows of sale_payments record_sale inserts for one sale, the
\* AUTOINCREMENT key continuing from seq; the inserts of the indices in
\* failing raise and are passed over
NewPayments(seq, sale_id, total, n_inst, inst_dates, up, failing) ==
    IF HasInstallments(n_inst)
    THEN LET amounts == InstallmentAmounts(total, n_inst, up)
             kept == {i \in 1..n_inst : i \notin failing}
             rank(i) == Cardinality({j \in kept : j <= i})
         IN  {[id |-> seq + rank(i),
               sale_id |-> sale_id,
               installment_index |-> i,
               due_date |-> DueOf(inst_dates, i),
               amount |-> amounts[i],
               paid |-> 0,
               paid_date |-> NullTs,
               payment_method |-> NullMethod] : i \in kept}
    ELSE {}

SaleRow(sale_id, date, employee_id, product_id, quantity, total, payment_method, num_installments, inst_dates) ==
    [id |-> sale_id,
     date |-> date,
     employee_id |-> employee_id,
     product_id |-> product_id,
     quantity |-> quantity,
     total_value |-> total,
     sale_type |-> "cliente",
     payment_method |-> OrEmpty(payment_method),
     num_installments |-> InstCount(num_installments),
     installment_dates |-> inst_dates]

\* the quantity test of record_sale, with the boundary left out
InvalidQuantity_strict(quantity) == quantity < 0

\* if quantity <= 0: return False, "Quantidade invalida."
InvalidQuantity(quantity) == quantity <= 0

\* the tables as one value
Store ==
    [products |-> products, sales |-> sales, sale_payments |-> sale_payments,
     payment_seq |-> payment_seq, activity_log |-> activity_log]

\* record_sale, as the tables it leaves and the pair it returns.  db_fail
\* names the statement of the transaction that raises ("none", "insert":
\* the insert into sales, "commit"); failing is the set of installment
\* inserts that raise; log_fail is the number of calls of log_activity,
\* counted from the first, that raise.
record_sale_on(st, employee_id, product_id, quantity, custom_price, payment_method, date_str, num_installments, inst_dates, up, db_fail, failing, log_fail) ==
    IF product_id \notin DOMAIN st.products
    THEN [st |-> st, ok |-> FALSE, err |-> "Produto nao encontrado."]
    ELSE IF InvalidQuantity(quantity)
    THEN [st |-> st, ok |-> FALSE, err |-> "Quantidade invalida."]
    ELSE
      LET unit_price == IF custom_price # NoPrice THEN custom_price
                        ELSE Price(st.products[product_id])
          total == LineTotal(unit_price, quantity)
          sale_id == LastRowId(st.sales)
          n_inst == InstCount(num_installments)
          rows == NewPayments(st.payment_seq, sale_id, total, n_inst,
                              inst_dates, up, failing)
      IN
      IF db_fail # "none"
      THEN \* the statement raises: nothing is committed, the error is logged
           [st |-> [st EXCEPT !.activity_log =
                       LogAppend(@, "ERRO_REGISTRAR_VENDA", log_fail >= 1)],
            ok |-> FALSE, err |-> "db error"]
      ELSE LET written ==
                 [st EXCEPT
                    !.sales = @ \cup
                       {SaleRow(sale_id,
                                IF date_str # NoDate THEN date_str ELSE now,
                                employee_id, product_id, quantity, total,
                                payment_method, num_installments, inst_dates)},
                    !.sale_payments = @ \cup rows,
                    !.payment_seq = @ + Cardinality(rows)]
           IN  IF log_fail >= 1
               THEN \* log_activity raises inside the try: the handler logs
                    \* the error and returns it
                    [st |-> [written EXCEPT !.activity_log =
                                LogAppend(@, "ERRO_REGISTRAR_VENDA", log_fail >= 2)],
                     ok |-> FALSE, err |-> "log error"]
               ELSE [st |-> [written EXCEPT !.activity_log =
                                Append(@, "REGISTRAR_VENDA")],
                     ok |-> TRUE, err |-> ""]

\* the tables take the value st
Commit(st) ==
    /\ products' = st.products
    /\ sales' = st.sales
    /\ sale_payments' = st.sale_payments
    /\ payment_seq' = st.payment_seq
    /\ activity_log' = st.activity_log

record_sale(employee_id, product_id, quantity, custom_price, payment_method, date_str, num_installments, inst_dates, up, db_fail, failing, log_fail) ==
    LET r == record_sale_on(Store, employee_id, product_id, quantity,
                            custom_price, payment_method, date_str,
                            num_installments, inst_dates, up, db_fail,
                            failing, log_fail)
    IN  /\ Commit(r.st)
        /\ result' = [op |-> "record_sale",
                      arg |-> [product_id |-> product_id, quantity |-> quantity],
                      ok |-> r.ok, err |-> r.err]
        /\ UNCHANGED <<now, cart_items>>

\* update_payment_status_db(payment_id, paid_flag, payment_method): case A,
\* one row of sale_payments
SetPaidRow(p, payment_method) ==
    [p EXCEPT !.paid = 1, !.paid_date = now,
              !.payment_method = OrEmpty(payment_method)]

\* unmarking that leaves the date of the payment in place
SetUnpaidRow_keepdate(p) == [p EXCEPT !.paid = 0, !.payment_method = ""]

SetUnpaidRow(p) ==
    [p EXCEPT !.paid = 0, !.paid_date = EmptyTs, !.payment_method = ""]

\* the update of one row taking every row of the sale of that number
RowWhere_sale(p, payment_id) == p.sale_id = payment_id

\* ... WHERE id = ?
RowWhere(p, payment_id) == p.id = payment_id

update_payment_row(payment_id, paid_flag, payment_method, db_fail) ==
    LET ret(ok, err) ==
            [op |-> "update_payment_row", arg |-> "", ok |-> ok, err |-> err]
    IN  /\ IF db_fail
           THEN /\ sale_payments' = sale_payments
                /\ result' = ret(FALSE, "db error")
           ELSE /\ sale_payments' =
                     {IF RowWhere(p, payment_id)
                      THEN (IF paid_flag THEN SetPaidRow(p, payment_method)
                            ELSE SetUnpaidRow(p))
                      ELSE p : p \in sale_payments}
                /\ result' = ret(TRUE, "")
        /\ UNCHANGED <<products, sales, payment_seq, activity_log, now,
                       cart_items>>

\* the WHERE clause of the 'Pago' update, without its test of paid
PagoWhere_all(p, sale_id) == p.sale_id = sale_id

\* WHERE sale_id = ? AND paid = 0
PagoWhere(p, sale_id) == p.sale_id = sale_id /\ p.paid = 0

\* the WHERE clause of the 'Em Aberto' update, with a test of paid added
AbertoWhere_paid(p, sale_id) == p.sale_id = sale_id /\ p.paid = 1

\* WHERE sale_id = ?
AbertoWhere(p, sale_id) == p.sale_id = sale_id

\* another status treated as 'Em Aberto'
OtherStatusRows_cleared(rows, sale_id) ==
    {IF p.sale_id = sale_id THEN SetUnpaidRow(p) ELSE p : p \in rows}

\* 'Parcial' and any other status: no statement on sale_payments
OtherStatusRows(rows, sale_id) == rows

\* update_payment_status_db(sale_id, status, payment_method): case B, every
\* installment of a sale
update_sale_status(sale_id, status, payment_method, db_fail) ==
    LET ret(ok, err) ==
            [op |-> "update_sale_status", arg |-> status, ok |-> ok, err |-> err]
    IN  /\ IF db_fail
           THEN /\ sale_payments' = sale_payments
                /\ result' = ret(FALSE, "db error")
           ELSE /\ sale_payments' =
                     IF status = "Pago"
                     THEN {IF PagoWhere(p, sale_id)
                           THEN SetPaidRow(p, payment_method)
                           ELSE p : p \in sale_payments}
                     ELSE IF status = "Em Aberto"
                     THEN {IF AbertoWhere(p, sale_id) THEN SetUnpaidRow(p)
                           ELSE p : p \in sale_payments}
                     ELSE OtherStatusRows(sale_payments, sale_id)
                /\ result' = ret(TRUE, "")
        /\ UNCHANGED <<products, sales, payment_seq, activity_log, now,
                       cart_items>>

\* the WHERE clause of delete_sale taking the older rows as well
DeleteWhere_upto(s, sale_id) == s.id <= sale_id

\* DELETE FROM sales WHERE id = ?
DeleteWhere(s, sale_id) == s.id = sale_id

\* delete_sale.  The exception e the except clause catches is kept as err.
\* The log call of the except clause is not guarded: when it raises too,
\* the exception leaves delete_sale (raised).
delete_sale(sale_id, db_fail, log_fail) ==
    LET ret(ok, err) ==
            [op |-> "delete_sale", arg |-> "", ok |-> ok, err |-> err]
        \* the except clause, entered with e after k calls of log_activity
        handler(k, e) ==
            IF log_fail > k
            THEN /\ activity_log' = activity_log
                 /\ result' = ret(FALSE, "raised")
            ELSE /\ activity_log' = Append(activity_log, "ERRO_EXCLUIR_VENDA")
                 /\ result' = ret(FALSE, e)
    IN  /\ IF db_fail
           THEN /\ sales' = sales
                /\ handler(0, "db error")
           ELSE /\ sales' = {s \in sales : ~DeleteWhere(s, sale_id)}
                /\ IF log_fail >= 1
                   THEN handler(1, "log error")
                   ELSE /\ activity_log' = Append(activity_log, "EXCLUIR_VENDA")
                        /\ result' = ret(TRUE, "")
        /\ UNCHANGED <<products, sale_payments, payment_seq, now, cart_items>>

delete_product(pid) ==
    /\ products' = [q \in DOMAIN products \ {pid} |-> products[q]]
    /\ activity_log' = IF pid \in DOMAIN products
                       THEN Append(activity_log, "EXCLUIR_PRODUTO")
                       ELSE activity_log
    /\ result' = [op |-> "delete_product", arg |-> "", ok |-> TRUE, err |-> ""]
    /\ UNCHANGED <<sales, sale_payments, payment_seq, now, cart_items>>

-----------------------------------------------------------------------------
(* The checkout form of sales_view.  The form holds the cart; the fields    *)
(* of the installment due dates are rebuilt whenever the dropdown of the    *)
(* number of installments changes, so there are as many as it shows.  The   *)
(* container of these fields is not part of the layout sales_view returns,  *)
(* so the form leaves every field blank; the model lets a field hold any    *)
(* string, the blank one included.                                          *)

\* add_product_to_cart, for a quantity and a price that parse
add_product_to_cart(pid, qty, custom_price) ==
    IF pid \notin DOMAIN products
    THEN /\ result' = [op |-> "add_product_to_cart", arg |-> "", ok |-> FALSE,
                       err |-> "Produto nao encontrado!"]
         /\ UNCHANGED <<products, sales, sale_payments, payment_seq,
                        activity_log, now, cart_items>>
    ELSE LET unit_price == IF custom_price # NoPrice THEN custom_price
                           ELSE Price(products[pid])
         IN  /\ cart_items' = Append(cart_items, CartItem(pid, qty, unit_price))
             /\ result' = [op |-> "add_product_to_cart", arg |-> "", ok |-> TRUE,
                           err |-> ""]
             /\ UNCHANGED <<products, sales, sale_payments, payment_seq,
                            activity_log, now>>

remove_from_cart(index) ==
    /\ cart_items' = IF index \in 1..Len(cart_items)
                     THEN [i \in 1..(Len(cart_items) - 1) |->
                             IF i < index THEN cart_items[i] ELSE cart_items[i + 1]]
                     ELSE cart_items
    /\ result' = [op |-> "remove_from_cart", arg |-> "", ok |-> TRUE, err |-> ""]
    /\ UNCHANGED <<products, sales, sale_payments, payment_seq, activity_log, now>>

clear_cart ==
    /\ cart_items' = <<>>
    /\ result' = [op |-> "clear_cart", arg |-> "", ok |-> TRUE, err |-> ""]
    /\ UNCHANGED <<products, sales, sale_payments, payment_seq, activity_log, now>>

\* the loop of register_sale over the adjusted items, from item i on: one
\* call of record_sale for each, given up at the first that fails
RECURSIVE RecordItems(_, _, _, _, _, _, _, _)
RecordItems(st, adjusted, i, payment_method, date_value, num_installments, inst_dates, up) ==
    IF i > Len(adjusted) THEN [st |-> st, ok |-> TRUE, err |-> ""]
    ELSE LET r == record_sale_on(st, 1, adjusted[i].item.product_id,
                                 adjusted[i].item.quantity,
                                 adjusted[i].adj_unit, payment_method,
                                 date_value, num_installments, inst_dates,
                                 up, "none", {}, 0)
         IN  IF ~r.ok THEN r
             ELSE RecordItems(r.st, adjusted, i + 1, payment_method,
                              date_value, num_installments, inst_dates, up)

\* the test of the due dates with the result ignored
DatesRejected_never(inst_dates) == FALSE

\* if not validate_installment_dates(inst_dates): ... return
DatesRejected(inst_dates) == ~validate_installment_dates(inst_dates)

\* register_sale.  discount_parses tells whether float() takes the text of
\* the discount field; fields are the texts of the due-date fields, one for
\* each of the num_installments the dropdown shows; ups and up are the
\* directions round takes on half cents, in the allocation and in
\* record_sale.
\* the loop of register_sale with the last item scaled like the others
adjusted_items_flat(items, discount, ups) ==
    LET total_before == TotalBefore(items)
        final_total == FinalTotal(total_before, discount)
    IN  [i \in 1..Len(items) |->
           LET adj_total == Scaled(items[i], total_before, final_total, discount, ups[i])
           IN  [item |-> items[i],
                adj_unit |-> AdjUnit(adj_total, items[i].quantity),
                adj_total |-> adj_total]]

\* lines 2290 to 2311 of register_sale: the cart with the discount spread
\* over its items
adjusted_items(items, discount, ups) ==
    LET n == Len(items)
        total_before == TotalBefore(items)
        final_total == FinalTotal(total_before, discount)
        scaled == [i \in 1..n |->
                     Scaled(items[i], total_before, final_total, discount, ups[i])]
        remaining == final_total - SumSeq(SubSeq(scaled, 1, n - 1))
        adj_total == [i \in 1..n |->
                        IF i < n THEN scaled[i]
                        ELSE LastAdjTotal(remaining, scaled[i])]
    IN  [i \in 1..n |->
           [item |-> items[i],
            adj_unit |-> AdjUnit(adj_total[i], items[i].quantity),
            adj_total |-> adj_total[i]]]

register_sale(discount_parses, discount, payment_method, date_value, num_installments, fields, ups, up) ==
    LET ret(ok, err) ==
            [op |-> "register_sale",
             arg |-> [num_installments |-> num_installments, discount |-> discount],
             ok |-> ok, err |-> err]
    IN
    IF cart_items = <<>>
    THEN /\ result' = ret(FALSE, "Adicione produtos ao carrinho")
         /\ UNCHANGED <<products, sales, sale_payments, payment_seq,
                        activity_log, now, cart_items>>
    ELSE IF ~discount_parses
    THEN \* float() raises: the handler logs the error and the trace
         /\ activity_log' = Append(Append(activity_log, "ERRO_REGISTRAR_VENDA"),
                                   "TRACE_REGISTRO_VENDA")
         /\ result' = ret(FALSE, "raised")
         /\ UNCHANGED <<products, sales, sale_payments, payment_seq, now,
                        cart_items>>
    ELSE
      LET adjusted == adjusted_items(cart_items, discount, ups)
          inst_dates == read_installment_dates(fields)
      IN
      IF DatesRejected(inst_dates)
      THEN /\ result' = ret(FALSE, "Preencha os vencimentos das parcelas")
           /\ UNCHANGED <<products, sales, sale_payments, payment_seq,
                          activity_log, now, cart_items>>
      ELSE LET r == RecordItems(Store, adjusted, 1, payment_method,
                                date_value, num_installments, inst_dates, up)
           IN  /\ Commit(r.st)
               /\ cart_items' = IF r.ok THEN <<>> ELSE cart_items
               /\ result' = ret(r.ok, IF r.ok THEN "" ELSE "Erro ao registrar item")
               /\ UNCHANGED now

-----------------------------------------------------------------------------
(* The store operations as actions, their arguments drawn from small sets *)

InitialProducts == (1 :> 5) @@ (2 :> 100)
Methods == {NoMethod, "Pix"}
Statuses == {"Pago", "Em Aberto", "Parcial"}

\* due dates, the k-th being day k
DueDates(n) == [k \in 1..n |-> IsoStr(2024, 2, k)]

\* the lists of due dates handed to record_sale with a count of n
DateArgs(n) == IF n > 1 THEN {<<>>, DueDates(n)} ELSE {<<>>, DueDates(1)}

FullDates == {DueDates(n) : n \in 1..(MAX_INSTALLMENTS + 1)}

\* the sets of installment inserts that raise: none, or one of them
FailingSets(n) == {{}} \cup (IF n > 1 THEN {{i} : i \in 1..n} ELSE {})

NoCall == [op |-> "none", arg |-> "", ok |-> TRUE, err |-> ""]

\* the threads of the server: each request is served on a thread of its own
Threads == {1, 2}

\* db_lock = threading.RLock(): free when its depth is 0
FreeLock == [owner |-> 1, depth |-> 0]

\* the tables as an open connection sees them before its commit
NoTx == [products |-> <<>>, sales |-> {}, sale_payments |-> {}, payment_seq |-> 0]

\* the local prod of record_sale and product of delete_product
NoProd == [found |-> FALSE, price |-> 0]

IdleFrame == [op |-> "none", id |-> 0, quantity |-> 0, num_installments |-> 0, prod |-> NoProd, tx |-> NoTx]

ThreadsIdle ==
    /\ db_lock = FreeLock
    /\ pc = [t \in Threads |-> "idle"]
    /\ frame = [t \in Threads |-> IdleFrame]

\* the default admin that init_db inserts into an empty table users
InitialUsers == 1 :> [username |-> "admin", password |-> "admin123"]

\* state.logged_user before a login
None == "None"

\* FAILED_LOGIN_ATTEMPTS = {} and AppState() at the start of the program
LoggedOut ==
    /\ users = InitialUsers
    /\ FAILED_LOGIN_ATTEMPTS = <<>>
    /\ logged_user = None


Init ==
    /\ products = InitialProducts
    /\ sales = {}
    /\ sale_payments = {}
    /\ payment_seq = 0
    /\ activity_log = <<>>
    /\ now = 0
    /\ cart_items = <<>>
    /\ result = NoCall
    /\ ThreadsIdle
    /\ LoggedOut
    /\ dates_call = NoCall
    /\ alloc_call = NoCall

Tick ==
    /\ now < MaxTime
    /\ now' = now + 1
    /\ UNCHANGED <<products, sales, sale_payments, payment_seq, activity_log,
                   cart_items, result, dates_call, alloc_call, thread_vars, login_vars>>

\* a call of record_sale within the bounds of the model
RecordSaleIn(pids, quantities, sale_dates, counts, date_args, db_fails, fail_sets, log_fails, max_rows) ==
    \E product_id \in pids, quantity \in quantities, date_str \in sale_dates,
       num_installments \in counts, up \in BOOLEAN,
       db_fail \in db_fails, log_fail \in log_fails :
      \E inst_dates \in date_args \cap DateArgs(num_installments),
         failing \in fail_sets \cap FailingSets(num_installments) :
        /\ NextSaleId <= MaxSales
        /\ Len(activity_log) < MaxLog
        /\ record_sale(1, product_id, quantity, NoPrice, "Pix", date_str,
                       num_installments, inst_dates, up, db_fail, failing,
                       log_fail)
        /\ payment_seq' <= max_rows
        /\ UNCHANGED <<dates_call, alloc_call, thread_vars, login_vars>>

\* record_sale; the store raises on single installment inserts only
RecordSale ==
    RecordSaleIn({1, 3}, 0..2, {NoDate}, 0..MaxInst, FullDates, {"none"},
                 SUBSET (1..MaxInst), {0}, MaxPayments)

DeleteSaleIn(db_fails, log_fails) ==
    \E sale_id \in 1..(MaxSales + 1), db_fail \in db_fails,
       log_fail \in log_fails :
        /\ Len(activity_log) < MaxLog
        /\ delete_sale(sale_id, db_fail, log_fail)
        /\ UNCHANGED <<dates_call, alloc_call, thread_vars, login_vars>>

DeleteSale == DeleteSaleIn({FALSE}, {0})

\* recording and deleting sales
Next ==
    \/ RecordSale
    \/ DeleteSale

Spec == Init /\ [][Next]_vars

-----------------------------------------------------------------------------
(* The installment status updates, on sales of two installments, the      *)
(* second of which may be missing                                          *)

\* the payment methods worth telling apart: the method is read only when
\* rows are marked paid
MethodsFor(marks_paid) == IF marks_paid THEN Methods ELSE {NoMethod}

UpdatePaymentRow ==
    \E payment_id \in 1..(payment_seq + 1), paid_flag \in BOOLEAN :
      \E payment_method \in MethodsFor(paid_flag) :
        /\ update_payment_row(payment_id, paid_flag, payment_method, FALSE)
        /\ UNCHANGED <<dates_call, alloc_call, thread_vars, login_vars>>

UpdateSaleStatus ==
    \E sale_id \in 1..NextSaleId, status \in Statuses :
      \E payment_method \in MethodsFor(status = "Pago") :
        /\ update_sale_status(sale_id, status, payment_method, FALSE)
        /\ UNCHANGED <<dates_call, alloc_call, thread_vars, login_vars>>

RecordPlainSale ==
    RecordSaleIn({1}, {2}, {0}, {2}, FullDates, {"none"}, {{}, {2}}, {0},
                 MaxPayments)

NextStatus ==
    \/ Tick
    \/ RecordPlainSale
    \/ UpdatePaymentRow
    \/ UpdateSaleStatus

SpecStatus == Init /\ [][NextStatus]_vars

\* the single-installment update alone, on the sales of RecordPlainSale
NextRow ==
    \/ RecordPlainSale
    \/ UpdatePaymentRow

SpecRow == Init /\ [][NextRow]_vars

-----------------------------------------------------------------------------
(* record_sale with every installment count, in range or not *)

RecordAnyCount ==
    RecordSaleIn({1}, {1}, {NoDate}, (0 - 1)..OverRange, FullDates, {"none"},
                 {{}}, {0}, MaxSales * OverRange)

NextCounts ==
    \/ RecordAnyCount
    \/ DeleteSale

SpecCounts == Init /\ [][NextCounts]_vars

-----------------------------------------------------------------------------
(* Claims on recording a sale *)

RECURSIVE SumAmounts(_)
SumAmounts(rows) ==
    IF rows = {} THEN 0
    ELSE LET p == CHOOSE q \in rows : TRUE
         IN  p.amount + SumAmounts(rows \ {p})

\* C1: for every total in whole cents and every count N in 1..12 the
\* installment amounts are N in number and sum to the total; and in every
\* reachable state, for every sale that has installment rows, the amounts
\* of its installment rows sum to the sale's total_value.
C1_InstallmentsSumToTotal ==
    /\ \A total \in 0..InitialProducts[2], n_inst \in 1..MAX_INSTALLMENTS,
          up \in BOOLEAN :
          /\ Len(InstallmentAmounts(total, n_inst, up)) = n_inst
          /\ SumSeq(InstallmentAmounts(total, n_inst, up)) = total
    /\ \A s \in sales :
          PaymentsOf(s.id) # {} => SumAmounts(PaymentsOf(s.id)) = s.total_value

\* C2: no reachable state holds a sale with num_installments = N > 1 and
\* fewer than N installment rows (the sale and its installments are written
\* together or not at all).
C2_NoSaleWithoutItsInstallments ==
    \A s \in sales :
        s.num_installments > 1 =>
            Cardinality(PaymentsOf(s.id)) >= s.num_installments

\* C4: for every sale recorded with N > 1 installments, the
\* installment_index values of its rows are exactly 1..N, none missing and
\* none twice.
C4_IndicesContiguous ==
    \A s \in sales :
        s.num_installments > 1 =>
            /\ {p.installment_index : p \in PaymentsOf(s.id)} = 1..s.num_installments
            /\ Cardinality(PaymentsOf(s.id)) = s.num_installments

\* C6: record_sale called with quantity <= 0 or with a product_id that has
\* no product row returns a failure ("Quantidade invalida." / "Produto nao
\* encontrado.") and writes no row of sales or sale_payments.
C6_InvalidSaleRejected ==
    [][(/\ result'.op = "record_sale"
        /\ \/ result'.arg.quantity <= 0
           \/ result'.arg.product_id \notin DOMAIN products)
       => /\ result'.ok = FALSE
          /\ result'.err \in {"Quantidade invalida.", "Produto nao encontrado."}
          /\ sales' = sales
          /\ sale_payments' = sale_payments
          /\ payment_seq' = payment_seq]_vars

\* a rejected call made when the store already holds a sale and installments
C6_Witness ==
    /\ result.op = "record_sale"
    /\ result.ok = FALSE
    /\ result.err = "Quantidade invalida."
    /\ sales # {}
    /\ sale_payments # {}

\* C7: every persisted sale has 1 <= num_installments <= 12 (a call with a
\* count outside 1..12 is an error and persists nothing).
C7_CountInRange ==
    \A s \in sales : s.num_installments \in 1..MAX_INSTALLMENTS

\* C13: delete_sale(sale_id) removes exactly the row of sales with that id
\* and leaves every other row of sales and every row of sale_payments as it
\* was, so the installments of the deleted sale stay behind as orphans.
C13_DeleteSaleFrame ==
    [][(result'.op = "delete_sale" /\ result'.ok) =>
        \A sale_id \in 1..(MaxSales + 1) :
          delete_sale(sale_id, FALSE, 0)
          => /\ sales' = {s \in sales : s.id # sale_id}
             /\ sale_payments' = sale_payments]_vars

\* a sale has been deleted: its installments are still there, and so is
\* another sale
C13_Witness ==
    /\ result.op = "delete_sale"
    /\ result.ok
    /\ sales # {}
    /\ \E p \in sale_payments : \A s \in sales : s.id # p.sale_id

\* C20: record_sale called with num_installments = 1, or with no count,
\* persists the Sale row and creates no installment row; installment rows
\* are created only by a call that persists a sale of more than one
\* installment, and they are the rows of that sale.
C20_SingleInstallmentNoRows ==
    [][result'.op = "record_sale" =>
        /\ result'.ok =>
             \E s \in sales' \ sales :
                /\ sales' = sales \cup {s}
                /\ s.id = NextSaleId
                /\ s.num_installments <= 1 => sale_payments' = sale_payments
        /\ sale_payments' # sale_payments =>
             /\ sale_payments \subseteq sale_payments'
             /\ \E s \in sales' \ sales :
                   /\ s.num_installments > 1
                   /\ \A p \in sale_payments' \ sale_payments : p.sale_id = s.id]_vars

\* a sale of one installment has been recorded into a store that holds
\* installments of another sale: it has no row of its own
C20_Witness ==
    /\ result.op = "record_sale"
    /\ result.ok
    /\ sale_payments # {}
    /\ \E s \in sales :
          /\ s.id = LastRowId(sales) - 1
          /\ s.num_installments = 1
          /\ PaymentsOf(s.id) = {}

\* C25: for every sale recorded by record_sale with N > 1, the installment
\* with index k (1 <= k <= N) carries the k-th supplied due date and the
\* k-th computed amount: every row the call inserts belongs to the new
\* sale, has an index k in 1..N, the k-th of the dates stored with the sale
\* and the k-th of the amounts the total splits into, and no two rows have
\* the same index.
C25_RowsInSuppliedOrder ==
    [][(result'.op = "record_sale" /\ result'.ok) =>
        \A s \in sales' \ sales :
           LET rows == sale_payments' \ sale_payments
               N == s.num_installments
           IN  \E up \in BOOLEAN :
                  /\ \A p \in rows :
                        /\ p.sale_id = s.id
                        /\ p.installment_index \in 1..N
                        /\ p.due_date = s.installment_dates[p.installment_index]
                        /\ p.amount = InstallmentAmounts(s.total_value, N, up)[p.installment_index]
                  /\ \A p, q \in rows :
                        p.installment_index = q.installment_index => p = q]_vars

\* a sale of two installments has just been recorded with both rows, of
\* different due dates and different amounts
C25_Witness ==
    /\ result.op = "record_sale"
    /\ result.ok
    /\ \E s \in sales :
          /\ s.id = LastRowId(sales) - 1
          /\ s.num_installments = 2
          /\ \E p, q \in PaymentsOf(s.id) :
                /\ p.installment_index = 1
                /\ q.installment_index = 2
                /\ p.due_date = s.installment_dates[1]
                /\ q.due_date = s.installment_dates[2]
                /\ p.due_date # q.due_date
                /\ p.amount # q.amount

-----------------------------------------------------------------------------
(* Claims on the installment status updates *)

\* C5: marking an installment paid is idempotent: the single-installment
\* update with a paid flag of true, on a row that is already paid, leaves
\* the row's paid, paid_date and payment_method as the first marking set
\* them, whatever the time and the method of the second call.
C5_MarkPaidIdempotent ==
    [][result'.op = "update_payment_row" =>
        \A payment_id \in 1..(payment_seq + 1), payment_method \in Methods :
          update_payment_row(payment_id, TRUE, payment_method, FALSE)
          => \A p \in sale_payments :
                (p.id = payment_id /\ p.paid = 1) => p \in sale_payments']_vars

\* C10: the bulk update with status 'Pago' for a sale leaves every
\* installment of the sale paid: the unpaid ones get paid = 1, the current
\* time and the given method, the paid ones keep their paid_date and
\* payment_method, and the installments of every other sale are unchanged.
C10_BulkPaid ==
    [][(result'.op = "update_sale_status" /\ result'.arg = "Pago") =>
        \A sale_id \in 1..NextSaleId, payment_method \in Methods :
          update_sale_status(sale_id, "Pago", payment_method, FALSE)
          => /\ \A p \in sale_payments :
                  IF p.sale_id = sale_id /\ p.paid = 0
                  THEN [id |-> p.id, sale_id |-> p.sale_id,
                        installment_index |-> p.installment_index,
                        due_date |-> p.due_date, amount |-> p.amount,
                        paid |-> 1, paid_date |-> now,
                        payment_method |->
                            IF payment_method = NoMethod THEN ""
                            ELSE payment_method] \in sale_payments'
                  ELSE p \in sale_payments'
             /\ Cardinality(sale_payments') = Cardinality(sale_payments)
             /\ \A q \in sale_payments' : q.sale_id = sale_id => q.paid = 1
             /\ result'.ok = TRUE]_vars

\* after a bulk 'Pago': a sale with a row paid earlier and a row paid now,
\* and an unpaid row of another sale
C10_Witness ==
    /\ result.op = "update_sale_status"
    /\ result.arg = "Pago"
    /\ \E p, q \in sale_payments :
          /\ p.sale_id = q.sale_id
          /\ p.paid = 1 /\ q.paid = 1
          /\ p.paid_date < q.paid_date
          /\ q.paid_date = now
          /\ p.payment_method # q.payment_method
          /\ \E r \in sale_payments : r.sale_id # p.sale_id /\ r.paid = 0

\* C11: the bulk update with status 'Em Aberto' for a sale sets paid = 0
\* and clears paid_date and payment_method on every installment of the
\* sale, whatever their state before, and leaves the installments of every
\* other sale unchanged.
C11_BulkOpen ==
    [][(result'.op = "update_sale_status" /\ result'.arg = "Em Aberto") =>
        \A sale_id \in 1..NextSaleId :
          update_sale_status(sale_id, "Em Aberto", NoMethod, FALSE)
          => /\ \A p \in sale_payments :
                  IF p.sale_id = sale_id
                  THEN [id |-> p.id, sale_id |-> p.sale_id,
                        installment_index |-> p.installment_index,
                        due_date |-> p.due_date, amount |-> p.amount,
                        paid |-> 0, paid_date |-> EmptyTs,
                        payment_method |-> ""] \in sale_payments'
                  ELSE p \in sale_payments'
             /\ Cardinality(sale_payments') = Cardinality(sale_payments)
             /\ \A q \in sale_payments' :
                  q.sale_id = sale_id =>
                     q.paid = 0 /\ q.paid_date = EmptyTs /\ q.payment_method = ""
             /\ result'.ok = TRUE]_vars

\* after a bulk 'Em Aberto': a sale with both rows cleared, while a row of
\* another sale is still paid
C11_Witness ==
    /\ result.op = "update_sale_status"
    /\ result.arg = "Em Aberto"
    /\ \E p, q \in sale_payments :
          /\ p.sale_id = q.sale_id /\ p.id # q.id
          /\ p.paid = 0 /\ p.paid_date = EmptyTs
          /\ q.paid = 0 /\ q.paid_date = EmptyTs
          /\ \E r \in sale_payments : r.sale_id # p.sale_id /\ r.paid = 1

\* C12: the bulk update with status 'Parcial' returns success and changes
\* no field of any installment row of any sale.
C12_PartialNoEffect ==
    [][(result'.op = "update_sale_status" /\ result'.arg = "Parcial") =>
          /\ result'.ok = TRUE
          /\ sale_payments' = sale_payments
          /\ sales' = sales]_vars

\* a bulk 'Parcial' has returned on a store with paid and unpaid rows
C12_Witness ==
    /\ result.op = "update_sale_status"
    /\ result.arg = "Parcial"
    /\ result.ok
    /\ \E p, q \in sale_payments : p.sale_id = q.sale_id /\ p.paid = 1 /\ q.paid = 0

\* the columns of an installment the status updates never write
FixedColumns(p) == [id |-> p.id, sale_id |-> p.sale_id, installment_index |-> p.installment_index, due_date |-> p.due_date, amount |-> p.amount]

\* C21: the single-installment status update changes only paid, paid_date
\* and payment_method of the installment with the given id: its other
\* columns, every other installment row and every Sale row are unchanged,
\* and when the id matches no installment no row changes at all.
C21_UpdateRowFrame ==
    [][result'.op = "update_payment_row" =>
        \A payment_id \in 1..(payment_seq + 1), paid_flag \in BOOLEAN :
         \A payment_method \in MethodsFor(paid_flag) :
          update_payment_row(payment_id, paid_flag, payment_method, FALSE)
          => /\ sales' = sales
             /\ \A p \in sale_payments : p.id # payment_id => p \in sale_payments'
             /\ \A p \in sale_payments :
                   p.id = payment_id =>
                      \E q \in sale_payments' : FixedColumns(q) = FixedColumns(p)
             /\ Cardinality(sale_payments') = Cardinality(sale_payments)
             /\ (\A p \in sale_payments : p.id # payment_id)
                   => sale_payments' = sale_payments]_vars

\* a row has just been marked paid next to a row of the same sale that is
\* still as record_sale created it
C21_Witness ==
    /\ result.op = "update_payment_row"
    /\ result.ok
    /\ \E p, q \in sale_payments :
          /\ p.sale_id = q.sale_id
          /\ p.paid = 1
          /\ q.paid = 0
          /\ q.paid_date = NullTs

\* the row has a date of payment: neither NULL nor the empty string
HasPaidDate(p) == p.paid_date \notin {NullTs, EmptyTs}

\* C23: in every reachable state, after any sequence of record_sale,
\* single-installment updates and bulk updates, each installment row has a
\* non-empty paid_date if and only if its paid flag is true; an unpaid row
\* that was unmarked has an empty payment_method as well.
C23_PaidIffPaidDate ==
    \A p \in sale_payments :
        /\ (p.paid = 1) <=> HasPaidDate(p)
        /\ p.paid \in {0, 1}
        /\ p.paid_date = EmptyTs => p.payment_method = ""

\* a paid row, a row that was paid and unmarked, and a row as created
C23_Witness ==
    \E p, q, r \in sale_payments :
        /\ p.paid = 1 /\ HasPaidDate(p)
        /\ q.paid = 0 /\ q.paid_date = EmptyTs
        /\ r.paid = 0 /\ r.paid_date = NullTs

-----------------------------------------------------------------------------
(* The validator of due dates alone: a list of dates is drawn, then          *)
(* validate_installment_dates is applied to it.                              *)

InitDates ==
    /\ products = InitialProducts
    /\ sales = {}
    /\ sale_payments = {}
    /\ payment_seq = 0
    /\ activity_log = <<>>
    /\ now = 0
    /\ cart_items = <<>>
    /\ result = NoCall
    /\ ThreadsIdle
    /\ LoggedOut
    /\ alloc_call = NoCall
    /\ dates_call \in {[op |-> "pending", arg |-> dates, ok |-> FALSE, err |-> ""] :
                          dates \in DateLists}

ValidateDates ==
    /\ dates_call.op = "pending"
    /\ dates_call' = [dates_call EXCEPT
                         !.op = "validate_installment_dates",
                         !.ok = validate_installment_dates(dates_call.arg)]
    /\ UNCHANGED <<store_vars, alloc_call, thread_vars, login_vars>>

NextDates == ValidateDates

SpecDates == InitDates /\ [][NextDates]_vars

\* the string is a date of the calendar written YYYY-MM-DD or DD/MM/YYYY
IsCalendarDate(s) ==
    /\ s.fmt \in {"iso", "br"}
    /\ s.y >= 1
    /\ s.m \in 1..12
    /\ s.d >= 1
    /\ s.d <= DaysInMonth(s.y, s.m)

\* C8: validate_installment_dates accepts a list exactly when it is a single
\* blank entry, or it has at most 12 entries and every entry is non-blank
\* and parses as YYYY-MM-DD directly or after conversion from DD/MM/YYYY;
\* so a single malformed date is rejected, and so is a blank entry in a
\* list of two or more.
C8_DatesAcceptedIff ==
    dates_call.op = "validate_installment_dates" =>
        LET dates == dates_call.arg
        IN  dates_call.ok <=>
              \/ Len(dates) = 1 /\ dates[1].fmt \in {"empty", "blank"}
              \/ /\ Len(dates) <= 12
                 /\ \A i \in 1..Len(dates) :
                       dates[i].fmt \notin {"empty", "blank"} /\ IsCalendarDate(dates[i])

\* a list of two or more whose only fault is a blank entry has been rejected
C8_Witness ==
    /\ dates_call.op = "validate_installment_dates"
    /\ ~dates_call.ok
    /\ Len(dates_call.arg) >= 2
    /\ \E k \in 1..Len(dates_call.arg) :
          /\ dates_call.arg[k].fmt \in {"empty", "blank"}
          /\ \A i \in 1..Len(dates_call.arg) : i # k => IsCalendarDate(dates_call.arg[i])

-----------------------------------------------------------------------------
(* The allocator alone: a cart and a discount are drawn, then one of the     *)
(* two allocator functions is applied.                                       *)

\* the items of the carts drawn: quantity 1 or 2, line total up to MaxLineTotal
AllocItems ==
    {CartItem(1, quantity, [num |-> total, den |-> quantity]) :
        quantity \in 1..2, total \in 0..MaxLineTotal}

\* a cart of 30.00 and 10.00, to be discounted by 5.00
ScenarioCart == <<CartItem(1, 1, Price(3000)), CartItem(2, 1, Price(1000))>>
ScenarioDiscount == 5 * 100

AllocCarts == SeqsUpTo(AllocItems, MaxItems) \cup {ScenarioCart}

\* the discounts drawn for a cart: from nothing to past the total
AllocDiscounts(items) ==
    IF items = ScenarioCart THEN {ScenarioDiscount}
    ELSE 0..(TotalBefore(items) + 1)

InitAlloc ==
    /\ products = InitialProducts
    /\ sales = {}
    /\ sale_payments = {}
    /\ payment_seq = 0
    /\ activity_log = <<>>
    /\ now = 0
    /\ cart_items = <<>>
    /\ result = NoCall
    /\ ThreadsIdle
    /\ LoggedOut
    /\ dates_call = NoCall
    /\ \E items \in AllocCarts :
         \E discount \in AllocDiscounts(items) :
            alloc_call = [op |-> "pending", items |-> items,
                          discount |-> discount, out |-> <<>>]

\* the directions round takes on the half cents of a cart of n items; the
\* last item is not scaled, so its direction is never asked for
HalfCentChoices(n) == {ups \in [1..n -> BOOLEAN] : n > 0 => ups[n]}

DistributeTuples ==
    /\ alloc_call.op = "pending"
    /\ \E ups \in HalfCentChoices(Len(alloc_call.items)) :
          alloc_call' =
            [alloc_call EXCEPT
               !.op = "distribute_discount_tuples",
               !.out = distribute_discount_tuples(alloc_call.items,
                                                  alloc_call.discount, ups)]
    /\ UNCHANGED <<store_vars, dates_call, thread_vars, login_vars>>

DistributeDicts ==
    /\ alloc_call.op = "pending"
    /\ \E ups \in HalfCentChoices(Len(alloc_call.items)) :
          alloc_call' =
            [alloc_call EXCEPT
               !.op = "distribute_discount_dicts",
               !.out = distribute_discount_dicts(alloc_call.items,
                                                 alloc_call.discount, ups)]
    /\ UNCHANGED <<store_vars, dates_call, thread_vars, login_vars>>

NextAlloc == DistributeTuples \/ DistributeDicts

SpecAlloc == InitAlloc /\ [][NextAlloc]_vars

\* the adjusted totals an allocator returned
C3_AdjustedTotals ==
    [i \in 1..Len(alloc_call.out.adjusted) |->
        IF alloc_call.op = "distribute_discount_tuples"
        THEN alloc_call.out.adjusted[i].adj_total
        ELSE alloc_call.out.adjusted[i].total_price]

C27_AdjustedNonNegative ==
    (/\ alloc_call.op \in {"distribute_discount_tuples", "distribute_discount_dicts"}
     /\ alloc_call.discount >= 0
     /\ \A i \in 1..Len(alloc_call.items) : alloc_call.items[i].total_price >= 0)
    => \A i \in 1..Len(alloc_call.out.adjusted) : C3_AdjustedTotals[i] >= 0

\* the three copies of the allocation applied to the same cart and discount;
\* the same products are rounded in each, so round goes the same way
AllocateCopies ==
    /\ alloc_call.op = "pending"
    /\ \E ups \in HalfCentChoices(Len(alloc_call.items)) :
          alloc_call' =
            [alloc_call EXCEPT
               !.op = "copies",
               !.out = [tuples |-> distribute_discount_tuples(alloc_call.items, alloc_call.discount, ups),
                        dicts |-> distribute_discount_dicts(alloc_call.items, alloc_call.discount, ups),
                        inlined |-> adjusted_items(alloc_call.items, alloc_call.discount, ups)]]
    /\ UNCHANGED <<store_vars, dates_call, thread_vars, login_vars>>

NextCopies == AllocateCopies

SpecCopies == InitAlloc /\ [][NextCopies]_vars

\* C28: the three copies of the discount allocation are equivalent: for the
\* cart and the discount of a call, distribute_discount_tuples,
\* distribute_discount_dicts and the loop of register_sale yield the same
\* final_total and, item by item in the same order, the same adjusted total
\* and the same adjusted unit price.
C28_CopiesEquivalent ==
    alloc_call.op = "copies" =>
        LET items == alloc_call.items
            tuples == alloc_call.out.tuples
            dicts == alloc_call.out.dicts
            inlined == alloc_call.out.inlined
        IN  /\ tuples.final_total = dicts.final_total
            /\ tuples.final_total = FinalTotal(TotalBefore(items), alloc_call.discount)
            /\ Len(tuples.adjusted) = Len(items)
            /\ Len(dicts.adjusted) = Len(items)
            /\ Len(inlined) = Len(items)
            /\ \A i \in 1..Len(items) :
                  /\ tuples.adjusted[i].item = items[i]
                  /\ inlined[i].item = items[i]
                  /\ dicts.adjusted[i].product_id = items[i].product_id
                  /\ dicts.adjusted[i].quantity = items[i].quantity
                  /\ tuples.adjusted[i].adj_total = dicts.adjusted[i].total_price
                  /\ tuples.adjusted[i].adj_total = inlined[i].adj_total
                  /\ tuples.adjusted[i].adj_unit = dicts.adjusted[i].unit_price
                  /\ tuples.adjusted[i].adj_unit = inlined[i].adj_unit

\* the copies have been applied to a cart of several items with a discount
\* that leaves the last item a share other than its scaled one
C28_Witness ==
    /\ alloc_call.op = "copies"
    /\ Len(alloc_call.items) >= 2
    /\ alloc_call.discount > 0
    /\ alloc_call.discount < TotalBefore(alloc_call.items)
    /\ \E ups \in HalfCentChoices(Len(alloc_call.items)) :
          alloc_call.out.inlined
             # adjusted_items_flat(alloc_call.items, alloc_call.discount, ups)

-----------------------------------------------------------------------------
(* The checkout: products are put in the cart and taken out, the cart is     *)
(* registered, a product is deleted.                                         *)

\* the texts of a due-date field: empty, text that is no date, a date
\* written DD/MM/YYYY
FormStrings == {EmptyStr, TextStr, BrStr(29, 2, 2024)}

AddProductToCart ==
    \E pid \in {2, 3}, qty \in {1} :
        /\ Len(cart_items) < MaxSales
        /\ add_product_to_cart(pid, qty, NoPrice)
        /\ UNCHANGED <<dates_call, alloc_call, thread_vars, login_vars>>

RemoveFromCart ==
    \E index \in 1..MaxSales :
        /\ remove_from_cart(index)
        /\ UNCHANGED <<dates_call, alloc_call, thread_vars, login_vars>>

ClearCart == clear_cart /\ UNCHANGED <<dates_call, alloc_call, thread_vars, login_vars>>

\* the texts of the discount field: one that float() refuses, 0.00, 0.01
DiscountTexts ==
    {[parses |-> FALSE, value |-> 0]}
      \cup {[parses |-> TRUE, value |-> v] : v \in 0..1}

\* round goes the same way on every half cent of one checkout
RegisterSale ==
    \E discount \in DiscountTexts, num_installments \in 1..MaxInst,
       up \in BOOLEAN :
      \E fields \in [1..num_installments -> FormStrings] :
        /\ NextSaleId + Len(cart_items) - 1 <= MaxSales
        /\ Len(activity_log) < MaxLog
        /\ register_sale(discount.parses, discount.value, "Dinheiro", NoDate,
                         num_installments, fields,
                         [i \in 1..Len(cart_items) |-> up], up)
        /\ UNCHANGED <<dates_call, alloc_call, thread_vars, login_vars>>

DeleteProduct ==
    /\ Len(activity_log) < MaxLog
    /\ delete_product(2)
    /\ UNCHANGED <<dates_call, alloc_call, thread_vars, login_vars>>

NextCheckout ==
    \/ AddProductToCart
    \/ RemoveFromCart
    \/ ClearCart
    \/ RegisterSale
    \/ DeleteProduct

SpecCheckout == Init /\ [][NextCheckout]_vars

\* no sale of several installments has a blank or unparseable due date
C9_NoBadDueDate ==
    \A s \in sales :
        s.num_installments > 1 =>
            /\ \A i \in 1..Len(s.installment_dates) :
                  IsCalendarDate(s.installment_dates[i])
            /\ \A p \in sale_payments :
                  p.sale_id = s.id => IsCalendarDate(p.due_date)

\* C9: a checkout whose due dates fail validation writes no row of sales
\* and no row of sale_payments for any item of the cart, and so no reachable
\* state holds a sale of several installments with a blank or unparseable
\* due date.
C9_RejectedCheckoutPersistsNothing ==
    /\ []C9_NoBadDueDate
    /\ [][(/\ result'.op = "register_sale"
           /\ result'.err = "Preencha os vencimentos das parcelas")
          => sales' = sales /\ sale_payments' = sale_payments]_vars

\* a checkout of a cart for several installments has been turned down for
\* its due dates, after another one went through
C9_Witness ==
    /\ result.op = "register_sale"
    /\ result.arg.num_installments >= 2
    /\ ~result.ok
    /\ result.err = "Preencha os vencimentos das parcelas"
    /\ cart_items # <<>>
    /\ \E s \in sales : s.num_installments > 1 /\ PaymentsOf(s.id) # {}

-----------------------------------------------------------------------------
(* The first checkout of a store: a cart of priced items with a discount,  *)
(* paid in one installment                                                  *)

\* an item is added at a price typed into the form
AddPricedItem ==
    \E qty \in 1..2, cents \in {1, 3} :
        /\ sales = {}
        /\ Len(cart_items) < MaxItems
        /\ add_product_to_cart(1, qty, Price(cents))
        /\ UNCHANGED <<dates_call, alloc_call, thread_vars, login_vars>>

\* the discounts of a cart: from nothing to a cent more than its total
RegisterDiscounted ==
    \E discount \in 0..(TotalBefore(cart_items) + 1) :
      \E ups \in HalfCentChoices(Len(cart_items)) :
        /\ cart_items # <<>>
        /\ sales = {}
        /\ Len(activity_log) < MaxLog
        /\ register_sale(TRUE, discount, "Dinheiro", NoDate, 1,
                         [i \in 1..1 |-> EmptyStr], ups, TRUE)
        /\ UNCHANGED <<dates_call, alloc_call, thread_vars, login_vars>>

NextDiscount ==
    \/ AddPricedItem
    \/ ClearCart
    \/ RegisterDiscounted

SpecDiscount == Init /\ [][NextDiscount]_vars

RECURSIVE SumTotalValue(_)
SumTotalValue(rows) ==
    IF rows = {} THEN 0
    ELSE LET s == CHOOSE x \in rows : TRUE
         IN  s.total_value + SumTotalValue(rows \ {s})

AdjTotals(adjusted) == [i \in 1..Len(adjusted) |-> adjusted[i].adj_total]

-----------------------------------------------------------------------------
(* A checkout of a cart of two products, one of which may be deleted while  *)
(* it is in the cart                                                        *)

AddAnyProduct ==
    \E pid \in {1, 2} :
        /\ Len(cart_items) < MaxSales
        /\ add_product_to_cart(pid, 1, NoPrice)
        /\ UNCHANGED <<dates_call, alloc_call, thread_vars, login_vars>>

\* a checkout with no discount, paid in one installment
RegisterPlain ==
    /\ NextSaleId + Len(cart_items) - 1 <= MaxSales
    /\ Len(activity_log) < MaxLog
    /\ register_sale(TRUE, 0, "Dinheiro", NoDate, 1, [i \in 1..1 |-> EmptyStr],
                     [i \in 1..Len(cart_items) |-> TRUE], TRUE)
    /\ UNCHANGED <<dates_call, alloc_call, thread_vars, login_vars>>

NextPartial ==
    \/ AddAnyProduct
    \/ ClearCart
    \/ DeleteProduct
    \/ RegisterPlain

SpecPartial == Init /\ [][NextPartial]_vars

-----------------------------------------------------------------------------
(* The split of a total into installments alone: a total and a count are    *)
(* drawn, then lines 561 to 566 of record_sale are applied to them.         *)

\* the total of the scenario of the specification: 100.00
ScenarioTotal == 100 * 100

AmountTotals == 0..(2 * InitialProducts[2]) \cup {ScenarioTotal}

InitAmounts ==
    /\ products = InitialProducts
    /\ sales = {}
    /\ sale_payments = {}
    /\ payment_seq = 0
    /\ activity_log = <<>>
    /\ now = 0
    /\ cart_items = <<>>
    /\ result = NoCall
    /\ ThreadsIdle
    /\ LoggedOut
    /\ dates_call = NoCall
    /\ \E total \in AmountTotals, n_inst \in 2..MAX_INSTALLMENTS :
          alloc_call = [op |-> "pending", total |-> total, n_inst |-> n_inst, out |-> <<>>]

SplitTotal ==
    /\ alloc_call.op = "pending"
    /\ \E up \in BOOLEAN :
          alloc_call' = [alloc_call EXCEPT
                           !.op = "installment_amounts",
                           !.out = InstallmentAmounts(alloc_call.total, alloc_call.n_inst, up)]
    /\ UNCHANGED <<store_vars, dates_call, thread_vars, login_vars>>

NextAmounts == SplitTotal

SpecAmounts == InitAmounts /\ [][NextAmounts]_vars

\* C24: for total T and N > 1, every installment except the last has the
\* amount base = round(T / N, 2) and the last has base + round(T - N x base,
\* 2); T = 100.00 and N = 3 give [33.33, 33.33, 33.34] in index order.
C24_AmountsFormula ==
    alloc_call.op = "installment_amounts" =>
        LET T == alloc_call.total
            N == alloc_call.n_inst
            out == alloc_call.out
        IN  /\ Len(out) = N
            /\ \E up \in BOOLEAN :
                  LET base == RoundCents(T, N, up)
                  IN  /\ \A i \in 1..(N - 1) : out[i] = base
                      /\ out[N] = base + (T - N * base)
            /\ (T = ScenarioTotal /\ N = 3) => out = <<3333, 3333, 3334>>

\* the scenario has been computed
C24_Witness ==
    /\ alloc_call.op = "installment_amounts"
    /\ alloc_call.total = ScenarioTotal
    /\ alloc_call.n_inst = 3
    /\ alloc_call.out = <<3333, 3333, 3334>>

\* C26: for every total >= 0 in whole cents and every N in 2..12, every
\* installment amount, the last one included, is >= 0.
C26_AmountsNonNegative ==
    alloc_call.op = "installment_amounts" =>
        \A i \in 1..Len(alloc_call.out) : alloc_call.out[i] >= 0

-----------------------------------------------------------------------------
(* The sale-affecting operations on a store and a logger that may raise:    *)
(* a statement of the transaction (the insert into sales, the DELETE, the   *)
(* UPDATE) or a call of log_activity fails with an exception                *)

RecordSaleFaulty ==
    RecordSaleIn({1}, 0..1, {NoDate}, {1, 2}, FullDates, {"none", "insert"}, {{}}, 0..2, 2)

DeleteSaleFaulty == DeleteSaleIn(BOOLEAN, 0..2)

\* the first installment is marked paid
UpdatePaymentRowFaulty ==
    \E db_fail \in BOOLEAN :
        /\ update_payment_row(1, TRUE, "Pix", db_fail)
        /\ UNCHANGED <<dates_call, alloc_call, thread_vars, login_vars>>

\* the first sale is marked paid
UpdateSaleStatusFaulty ==
    \E db_fail \in BOOLEAN :
        /\ update_sale_status(1, "Pago", "Pix", db_fail)
        /\ UNCHANGED <<dates_call, alloc_call, thread_vars, login_vars>>

NextFaults ==
    \/ RecordSaleFaulty
    \/ DeleteSaleFaulty
    \/ UpdatePaymentRowFaulty
    \/ UpdateSaleStatusFaulty

SpecFaults == Init /\ [][NextFaults]_vars

\* the call of this step returned a failure to its caller
ReturnedFailure == ~result'.ok /\ result'.err # "raised"

\* C16: whenever record_sale or delete_sale returns a failure result, sales
\* and sale_payments are exactly as they were before the call; whenever
\* record_sale returns success for N > 1, the Sale row and all N
\* installment rows are persisted.
C16_FailureWritesNothing ==
    [][/\ (result'.op \in {"record_sale", "delete_sale"} /\ ReturnedFailure)
            => (sales' = sales /\ sale_payments' = sale_payments)
       /\ (result'.op = "record_sale" /\ result'.ok)
            => \E s \in sales' \ sales :
                  s.num_installments > 1 =>
                     Cardinality({p \in sale_payments' \ sale_payments :
                                     p.sale_id = s.id}) = s.num_installments]_vars

\* C17: every invocation of record_sale, update_payment_status_db or
\* delete_sale, whether it succeeds or fails, appends exactly one entry to
\* the activity log.
C17_OneLogEntryPerCall ==
    [][result'.op \in {"record_sale", "update_payment_row", "update_sale_status", "delete_sale"}
          => Len(activity_log') = Len(activity_log) + 1]_vars

\* the entry of a completed operation has been appended by this step
LoggedSuccess ==
    /\ Len(activity_log') = Len(activity_log) + 1
    /\ activity_log'[Len(activity_log')] \in {"REGISTRAR_VENDA", "EXCLUIR_VENDA"}

\* C18: a failure of the logger does not turn a committed operation into a
\* failure: when record_sale has committed the sale, or delete_sale the
\* deletion, and log_activity raises, the operation returns its success
\* result.
C18_LogFailureKeepsSuccess ==
    [][(/\ result'.op \in {"record_sale", "delete_sale"}
        /\ sales' # sales
        /\ ~LoggedSuccess)
          => result'.ok]_vars

-----------------------------------------------------------------------------
(* The threads.  Every function that writes opens a connection of its own   *)
(* (get_db_conn) inside "with db_lock"; what it writes is seen by the       *)
(* others at its commit.  A thread is at a label: the statement it runs     *)
(* next.  get_product_by_id and log_activity take the lock, run and release *)
(* it, so each is one step that waits for the lock.                         *)

\* "with db_lock": an RLock is taken when free or when held by the caller
CanAcquire_always(t) == TRUE

\* a variant of the lock that is not re-entrant
CanAcquire_free(t) == db_lock.depth = 0

CanAcquire(t) == db_lock.depth = 0 \/ db_lock.owner = t

Acquire(t) ==
    /\ CanAcquire(t)
    /\ db_lock' = [owner |-> t, depth |-> db_lock.depth + 1]

Release(t) == db_lock' = [db_lock EXCEPT !.depth = @ - 1]

Goto(t, label) == pc' = [pc EXCEPT ![t] = label]

Return(t, op, ok, err) ==
    /\ pc' = [pc EXCEPT ![t] = "idle"]
    /\ frame' = [frame EXCEPT ![t] = IdleFrame]
    /\ result' = [op |-> op, arg |-> t, ok |-> ok, err |-> err]

\* get_product_by_id(pid), run under the lock
get_product_by_id(pid) ==
    IF pid \in DOMAIN products
    THEN [found |-> TRUE, price |-> products[pid]]
    ELSE NoProd

\* the tables a connection opened now reads
Snapshot == [products |-> products, sales |-> sales, sale_payments |-> sale_payments, payment_seq |-> payment_seq]

CommitTx(t) ==
    /\ products' = frame[t].tx.products
    /\ sales' = frame[t].tx.sales
    /\ sale_payments' = frame[t].tx.sale_payments
    /\ payment_seq' = frame[t].tx.payment_seq

frame_tables == <<products, sales, sale_payments, payment_seq>>

\* a thread enters one of the functions
Call(t, op, label, id, quantity, num_installments) ==
    /\ pc[t] = "idle"
    /\ Goto(t, label)
    /\ frame' = [frame EXCEPT ![t] = [IdleFrame EXCEPT !.op = op, !.id = id,
                    !.quantity = quantity, !.num_installments = num_installments]]
    /\ UNCHANGED <<frame_tables, activity_log, result, db_lock>>

\* record_sale, line 518 to 522: the product is read under the lock, the
\* lock is released and the arguments are checked
rs_get(t) ==
    /\ pc[t] = "rs_get"
    /\ CanAcquire(t)
    /\ LET prod == get_product_by_id(frame[t].id)
       IN  IF ~prod.found
           THEN Return(t, "record_sale", FALSE, "Produto nao encontrado.")
           ELSE IF InvalidQuantity(frame[t].quantity)
           THEN Return(t, "record_sale", FALSE, "Quantidade invalida.")
           ELSE /\ Goto(t, "rs_lock")
                /\ frame' = [frame EXCEPT ![t].prod = prod]
                /\ UNCHANGED result
    /\ UNCHANGED <<frame_tables, activity_log, db_lock>>

\* line 542
rs_lock(t) ==
    /\ pc[t] = "rs_lock"
    /\ Acquire(t)
    /\ Goto(t, "rs_insert")
    /\ UNCHANGED <<frame_tables, activity_log, result, frame>>

\* lines 543 to 598: the sale and its installments, at the price read at 518
rs_insert(t) ==
    /\ pc[t] = "rs_insert"
    /\ \E up \in BOOLEAN :
         LET seen == [Store EXCEPT !.products = (frame[t].id :> frame[t].prod.price)]
             r == record_sale_on(seen, 1, frame[t].id, frame[t].quantity, NoPrice, "Pix", NoDate, frame[t].num_installments, DueDates(frame[t].num_installments), up, "none", {}, 0)
         IN  frame' = [frame EXCEPT ![t].tx = [Snapshot EXCEPT
                          !.sales = r.st.sales,
                          !.sale_payments = r.st.sale_payments,
                          !.payment_seq = r.st.payment_seq]]
    /\ Goto(t, "rs_commit")
    /\ UNCHANGED <<frame_tables, activity_log, result, db_lock>>

\* line 600
rs_commit(t) ==
    /\ pc[t] = "rs_commit"
    /\ CommitTx(t)
    /\ Goto(t, "rs_unlock")
    /\ UNCHANGED <<activity_log, result, db_lock, frame>>

\* line 602: the end of the with block
rs_unlock(t) ==
    /\ pc[t] = "rs_unlock"
    /\ Release(t)
    /\ Goto(t, "rs_log")
    /\ UNCHANGED <<frame_tables, activity_log, result, frame>>

\* line 606 to 609
rs_log(t) ==
    /\ pc[t] = "rs_log"
    /\ CanAcquire(t)
    /\ activity_log' = Append(activity_log, "REGISTRAR_VENDA")
    /\ Return(t, "record_sale", TRUE, "")
    /\ UNCHANGED <<frame_tables, db_lock>>

\* delete_product, line 462
dp_lock(t) ==
    /\ pc[t] = "dp_lock"
    /\ Acquire(t)
    /\ Goto(t, "dp_delete")
    /\ UNCHANGED <<frame_tables, activity_log, result, frame>>

\* lines 465 and 466: the lock is taken again by get_product_by_id
dp_delete(t) ==
    /\ pc[t] = "dp_delete"
    /\ CanAcquire(t)
    /\ frame' = [frame EXCEPT
                   ![t].prod = get_product_by_id(frame[t].id),
                   ![t].tx = [Snapshot EXCEPT !.products =
                                [q \in DOMAIN products \ {frame[t].id} |-> products[q]]]]
    /\ Goto(t, "dp_commit")
    /\ UNCHANGED <<frame_tables, activity_log, result, db_lock>>

\* line 467
dp_commit(t) ==
    /\ pc[t] = "dp_commit"
    /\ CommitTx(t)
    /\ Goto(t, "dp_log")
    /\ UNCHANGED <<activity_log, result, db_lock, frame>>

\* lines 469 and 470, still inside the with block
dp_log(t) ==
    /\ pc[t] = "dp_log"
    /\ CanAcquire(t)
    /\ activity_log' = IF frame[t].prod.found
                       THEN Append(activity_log, "EXCLUIR_PRODUTO")
                       ELSE activity_log
    /\ Goto(t, "dp_unlock")
    /\ UNCHANGED <<frame_tables, result, db_lock, frame>>

\* line 471: the end of the with block
dp_unlock(t) ==
    /\ pc[t] = "dp_unlock"
    /\ Release(t)
    /\ Return(t, "delete_product", TRUE, "")
    /\ UNCHANGED <<frame_tables, activity_log>>

\* delete_sale, line 675
ds_lock(t) ==
    /\ pc[t] = "ds_lock"
    /\ Acquire(t)
    /\ Goto(t, "ds_delete")
    /\ UNCHANGED <<frame_tables, activity_log, result, frame>>

\* line 679
ds_delete(t) ==
    /\ pc[t] = "ds_delete"
    /\ frame' = [frame EXCEPT ![t].tx = [Snapshot EXCEPT !.sales =
                    {s \in sales : ~DeleteWhere(s, frame[t].id)}]]
    /\ Goto(t, "ds_commit")
    /\ UNCHANGED <<frame_tables, activity_log, result, db_lock>>

\* line 680
ds_commit(t) ==
    /\ pc[t] = "ds_commit"
    /\ CommitTx(t)
    /\ Goto(t, "ds_unlock")
    /\ UNCHANGED <<activity_log, result, db_lock, frame>>

\* line 681: the end of the with block
ds_unlock(t) ==
    /\ pc[t] = "ds_unlock"
    /\ Release(t)
    /\ Goto(t, "ds_log")
    /\ UNCHANGED <<frame_tables, activity_log, result, frame>>

\* lines 682 and 683
ds_log(t) ==
    /\ pc[t] = "ds_log"
    /\ CanAcquire(t)
    /\ activity_log' = Append(activity_log, "EXCLUIR_VENDA")
    /\ Return(t, "delete_sale", TRUE, "")
    /\ UNCHANGED <<frame_tables, db_lock>>

\* update_payment_status_db(payment_id, True, method), line 293
up_lock(t) ==
    /\ pc[t] = "up_lock"
    /\ Acquire(t)
    /\ Goto(t, "up_update")
    /\ UNCHANGED <<frame_tables, activity_log, result, frame>>

\* lines 296 to 299
up_update(t) ==
    /\ pc[t] = "up_update"
    /\ frame' = [frame EXCEPT ![t].tx = [Snapshot EXCEPT !.sale_payments =
                    {IF p.id = frame[t].id THEN SetPaidRow(p, "Pix") ELSE p :
                       p \in sale_payments}]]
    /\ Goto(t, "up_commit")
    /\ UNCHANGED <<frame_tables, activity_log, result, db_lock>>

\* line 303
up_commit(t) ==
    /\ pc[t] = "up_commit"
    /\ CommitTx(t)
    /\ Goto(t, "up_unlock")
    /\ UNCHANGED <<activity_log, result, db_lock, frame>>

\* line 305: the end of the with block and the return
up_unlock(t) ==
    /\ pc[t] = "up_unlock"
    /\ Release(t)
    /\ Return(t, "update_payment_row", TRUE, "")
    /\ UNCHANGED <<frame_tables, activity_log>>

\* the calls in flight
InFlight == {t \in Threads : pc[t] # "idle"}

CallRecordSale ==
    \E t \in Threads, quantity \in 0..1, num_installments \in 1..MaxInst :
       /\ Len(activity_log) + Cardinality(InFlight) < MaxLog
       /\ Call(t, "record_sale", "rs_get", 1, quantity, num_installments)

CallDeleteProduct ==
    \E t \in Threads :
       /\ Len(activity_log) + Cardinality(InFlight) < MaxLog
       /\ Call(t, "delete_product", "dp_lock", 1, 0, 0)

CallDeleteSale ==
    \E t \in Threads :
       /\ Len(activity_log) + Cardinality(InFlight) < MaxLog
       /\ Call(t, "delete_sale", "ds_lock", 1, 0, 0)

CallUpdatePayment ==
    \E t \in Threads :
       /\ \E p \in sale_payments : p.id = 1 /\ p.paid = 0
       /\ Call(t, "update_payment_row", "up_lock", 1, 0, 0)

RecordSaleStep ==
    \E t \in Threads :
       rs_get(t) \/ rs_lock(t) \/ rs_insert(t) \/ rs_commit(t) \/ rs_unlock(t) \/ rs_log(t)

DeleteProductStep ==
    \E t \in Threads :
       dp_lock(t) \/ dp_delete(t) \/ dp_commit(t) \/ dp_log(t) \/ dp_unlock(t)

DeleteSaleStep ==
    \E t \in Threads :
       ds_lock(t) \/ ds_delete(t) \/ ds_commit(t) \/ ds_unlock(t) \/ ds_log(t)

UpdatePaymentStep ==
    \E t \in Threads :
       up_lock(t) \/ up_update(t) \/ up_commit(t) \/ up_unlock(t)

NextThreads ==
    \/ (CallRecordSale /\ UNCHANGED <<now, cart_items, dates_call, alloc_call, login_vars>>)
    \/ (CallDeleteProduct /\ UNCHANGED <<now, cart_items, dates_call, alloc_call, login_vars>>)
    \/ (CallDeleteSale /\ UNCHANGED <<now, cart_items, dates_call, alloc_call, login_vars>>)
    \/ (CallUpdatePayment /\ UNCHANGED <<now, cart_items, dates_call, alloc_call, login_vars>>)
    \/ (RecordSaleStep /\ UNCHANGED <<now, cart_items, dates_call, alloc_call, login_vars>>)
    \/ (DeleteProductStep /\ UNCHANGED <<now, cart_items, dates_call, alloc_call, login_vars>>)
    \/ (DeleteSaleStep /\ UNCHANGED <<now, cart_items, dates_call, alloc_call, login_vars>>)
    \/ (UpdatePaymentStep /\ UNCHANGED <<now, cart_items, dates_call, alloc_call, login_vars>>)

SpecThreads == Init /\ [][NextThreads]_vars

\* the threads between their first write statement and their commit
Writing == {t \in Threads : pc[t] \in {"rs_commit", "dp_commit", "ds_commit", "up_commit"}}

\* C14: no two threads are at the same time between the first write
\* statement and the commit of record_sale, update_payment_status_db,
\* delete_sale or a product edit; a thread that is there holds db_lock
C14_WritesSerialized ==
    /\ Cardinality(Writing) <= 1
    /\ \A t \in Writing : db_lock.depth > 0 /\ db_lock.owner = t

\* a thread has written and not committed while the other waits for the lock
C14_Witness ==
    \E t \in Threads, u \in Threads :
       /\ t # u
       /\ pc[t] = "rs_commit"
       /\ pc[u] \in {"dp_lock", "ds_lock", "up_lock", "rs_lock"}

\* C15: record_sale never commits a Sale row whose product has no row at
\* the moment of the commit
C15_SaleOfExistingProduct ==
    [][\A t \in Threads :
          (pc[t] = "rs_commit" /\ pc'[t] = "rs_unlock") =>
             frame[t].id \in DOMAIN products]_vars

-----------------------------------------------------------------------------
(* The login form and the lockout after repeated failures                  *)

LOGIN_LOCK_THRESHOLD == 5
LOGIN_LOCK_SECONDS == 300

\* dict.pop(username, None)
pop(attempts, username) == [u \in DOMAIN attempts \ {username} |-> attempts[u]]

\* a variant that locks only past the threshold
is_login_locked_past(username) ==
    /\ username \in DOMAIN FAILED_LOGIN_ATTEMPTS
    /\ FAILED_LOGIN_ATTEMPTS[username].count > LOGIN_LOCK_THRESHOLD
    /\ now - FAILED_LOGIN_ATTEMPTS[username].ts < LOGIN_LOCK_SECONDS

\* the value is_login_locked returns
is_login_locked(username) ==
    /\ username \in DOMAIN FAILED_LOGIN_ATTEMPTS
    /\ FAILED_LOGIN_ATTEMPTS[username].count >= LOGIN_LOCK_THRESHOLD
    /\ now - FAILED_LOGIN_ATTEMPTS[username].ts < LOGIN_LOCK_SECONDS

\* FAILED_LOGIN_ATTEMPTS when is_login_locked returns: a record whose
\* window has passed is dropped
after_is_login_locked(username) ==
    IF /\ username \in DOMAIN FAILED_LOGIN_ATTEMPTS
       /\ ~is_login_locked(username)
       /\ now - FAILED_LOGIN_ATTEMPTS[username].ts >= LOGIN_LOCK_SECONDS
    THEN pop(FAILED_LOGIN_ATTEMPTS, username)
    ELSE FAILED_LOGIN_ATTEMPTS

record_failed_login(attempts, username) ==
    IF username \in DOMAIN attempts
    THEN [attempts EXCEPT ![username] = [count |-> attempts[username].count + 1, ts |-> now]]
    ELSE (username :> [count |-> 1, ts |-> now]) @@ attempts

clear_failed_login(attempts, username) == pop(attempts, username)

\* the ids of the rows of users with this username
get_user_by_username(username) == {id \in DOMAIN users : users[id].username = username}

\* bcrypt.checkpw against the stored hash of a user with this username
checkpw(username, password) ==
    \E id \in get_user_by_username(username) : users[id].password = password

LoginResult(username, password, ok, checked, text) ==
    [op |-> "fazer_login", arg |-> <<username, password>>, ok |-> ok, err |-> text, checked |-> checked]

\* the handler of the login button
fazer_login(username, password) ==
    IF username = ""
    THEN /\ result' = LoginResult(username, password, FALSE, FALSE, "Please enter your username")
         /\ UNCHANGED <<FAILED_LOGIN_ATTEMPTS, logged_user, activity_log>>
    ELSE IF password = ""
    THEN /\ result' = LoginResult(username, password, FALSE, FALSE, "Please enter your password")
         /\ UNCHANGED <<FAILED_LOGIN_ATTEMPTS, logged_user, activity_log>>
    ELSE IF is_login_locked(username)
    THEN /\ result' = LoginResult(username, password, FALSE, FALSE, "Too many failed attempts. Try later.")
         /\ FAILED_LOGIN_ATTEMPTS' = after_is_login_locked(username)
         /\ UNCHANGED <<logged_user, activity_log>>
    ELSE IF checkpw(username, password)
    THEN /\ logged_user' = username
         /\ FAILED_LOGIN_ATTEMPTS' = clear_failed_login(after_is_login_locked(username), username)
         /\ result' = LoginResult(username, password, TRUE, TRUE, "Login successful!")
         /\ activity_log' = Append(activity_log, "LOGIN")
    ELSE /\ result' = LoginResult(username, password, FALSE, TRUE, "Invalid username or password")
         /\ FAILED_LOGIN_ATTEMPTS' = record_failed_login(after_is_login_locked(username), username)
         /\ UNCHANGED <<logged_user, activity_log>>

\* what is typed into the form: nothing, the admin, a username of no user
Usernames == {"", "admin", "ghost"}
Passwords == {"", "admin123", "wrong"}

\* the clock is followed over this many seconds
LoginHorizon == 2 * MaxTime * LOGIN_LOCK_SECONDS

FazerLogin ==
    \E username \in Usernames, password \in Passwords :
        /\ checkpw(username, password) => Len(activity_log) < MaxLog
        /\ fazer_login(username, password)
        /\ UNCHANGED <<products, sales, sale_payments, payment_seq, now,
                       cart_items, users, dates_call, alloc_call, thread_vars>>

\* time passes between two attempts: just less than the lock window, or
\* the whole of it
Wait ==
    \E seconds \in {LOGIN_LOCK_SECONDS - 1, LOGIN_LOCK_SECONDS} :
        /\ now + seconds <= LoginHorizon
        /\ now' = now + seconds
        /\ UNCHANGED <<products, sales, sale_payments, payment_seq, activity_log,
                       cart_items, result, dates_call, alloc_call, thread_vars,
                       login_vars>>

NextLogin == FazerLogin \/ Wait

SpecLogin == Init /\ [][NextLogin]_vars

\* C29: once LOGIN_LOCK_THRESHOLD failed logins are recorded for a username,
\* a login attempt for it made less than LOGIN_LOCK_SECONDS after the last
\* recorded failure is rejected, the password is not checked and no failure
\* is recorded, so that the count never passes the threshold; a successful
\* login removes the failure record of the username.
C29_LoginLockout ==
    [][\A username \in Usernames \ {""}, password \in Passwords \ {""} :
          fazer_login(username, password) =>
             /\ (/\ username \in DOMAIN FAILED_LOGIN_ATTEMPTS
                 /\ FAILED_LOGIN_ATTEMPTS[username].count >= LOGIN_LOCK_THRESHOLD
                 /\ now - FAILED_LOGIN_ATTEMPTS[username].ts < LOGIN_LOCK_SECONDS)
                  => /\ ~result'.ok
                     /\ ~result'.checked
                     /\ FAILED_LOGIN_ATTEMPTS' = FAILED_LOGIN_ATTEMPTS
                     /\ logged_user' = logged_user
             /\ result'.ok => username \notin DOMAIN FAILED_LOGIN_ATTEMPTS'
             /\ \A u \in DOMAIN FAILED_LOGIN_ATTEMPTS' :
                   FAILED_LOGIN_ATTEMPTS'[u].count <= LOGIN_LOCK_THRESHOLD]_vars

\* the admin, with the right password, has been turned away while the
\* threshold of failures stood recorded less than the window ago
C29_Witness ==
    /\ result.op = "fazer_login"
    /\ result.arg = <<"admin", "admin123">>
    /\ ~result.checked
    /\ "admin" \in DOMAIN FAILED_LOGIN_ATTEMPTS
    /\ FAILED_LOGIN_ATTEMPTS["admin"].count = LOGIN_LOCK_THRESHOLD
    /\ now - FAILED_LOGIN_ATTEMPTS["admin"].ts = LOGIN_LOCK_SECONDS - 1

-----------------------------------------------------------------------------
(* The lock around the store operations.  Every use of db_lock is a "with  *)
(* db_lock" block: the block takes the lock, once more when the thread      *)
(* holds it already, and gives it back when it is left, by its last         *)
(* statement or by an exception.  delete_product and delete_user call       *)
(* get_product_by_id / get_user_by_id and log_activity inside their block;  *)
(* any statement that reaches the database may raise.                       *)

\* the thread holds db_lock
Holds(t) == db_lock.depth > 0 /\ db_lock.owner = t

\* get_user_by_id(uid), run under the lock
get_user_by_id(uid) ==
    IF uid \in DOMAIN users
    THEN [found |-> TRUE, price |-> 0]
    ELSE NoProd

\* "with db_lock:" of delete_product (line 462) and delete_user (line 394)
with_enter(t) ==
    /\ pc[t] = "with"
    /\ CanAcquire(t)
    /\ Acquire(t)
    /\ Goto(t, "get")
    /\ UNCHANGED <<products, users, activity_log, result, frame>>

\* the "with db_lock:" of get_product_by_id (line 439) or get_user_by_id
\* (line 363), entered by the thread that holds the lock
get_enter(t) ==
    /\ pc[t] = "get"
    /\ CanAcquire(t)
    /\ Acquire(t)
    /\ Goto(t, "get_exit")
    /\ UNCHANGED <<products, users, activity_log, result, frame>>

\* the SELECT either raises or returns the row; the inner block is left
get_exit(t) ==
    /\ pc[t] = "get_exit"
    /\ Release(t)
    /\ \E raises \in BOOLEAN :
          IF raises
          THEN Goto(t, "raise") /\ UNCHANGED frame
          ELSE /\ Goto(t, "delete")
               /\ frame' = [frame EXCEPT ![t].prod =
                               IF frame[t].op = "delete_product"
                               THEN get_product_by_id(frame[t].id)
                               ELSE get_user_by_id(frame[t].id)]
    /\ UNCHANGED <<products, users, activity_log, result>>

\* DELETE and commit (lines 466-467 and 398-399), either of which may raise
delete_row(t) ==
    /\ pc[t] = "delete"
    /\ \E raises \in BOOLEAN :
          IF raises
          THEN Goto(t, "raise") /\ UNCHANGED <<products, users>>
          ELSE /\ Goto(t, IF frame[t].prod.found THEN "log" ELSE "exit")
               /\ IF frame[t].op = "delete_product"
                  THEN /\ products' = [q \in DOMAIN products \ {frame[t].id} |-> products[q]]
                       /\ UNCHANGED users
                  ELSE /\ users' = [u \in DOMAIN users \ {frame[t].id} |-> users[u]]
                       /\ UNCHANGED products
    /\ UNCHANGED <<activity_log, result, db_lock, frame>>

\* the "with db_lock:" of log_activity (line 216)
log_enter(t) ==
    /\ pc[t] = "log"
    /\ CanAcquire(t)
    /\ Acquire(t)
    /\ Goto(t, "log_exit")
    /\ UNCHANGED <<products, users, activity_log, result, frame>>

\* the INSERT and commit of log_activity either raise or add the row; the
\* inner block is left
log_exit(t) ==
    /\ pc[t] = "log_exit"
    /\ Release(t)
    /\ \E raises \in BOOLEAN :
          IF raises
          THEN Goto(t, "raise") /\ UNCHANGED activity_log
          ELSE /\ Goto(t, "exit")
               /\ activity_log' = Append(activity_log,
                                     IF frame[t].op = "delete_product"
                                     THEN "EXCLUIR_PRODUTO" ELSE "EXCLUIR_USUARIO")
    /\ UNCHANGED <<products, users, result, frame>>

\* the end of the outer block
with_exit(t) ==
    /\ pc[t] = "exit"
    /\ Release(t)
    /\ Return(t, frame[t].op, TRUE, "")
    /\ UNCHANGED <<products, users, activity_log>>

\* an exception leaves the outer block, and the function
with_raise(t) ==
    /\ pc[t] = "raise"
    /\ Release(t)
    /\ Return(t, frame[t].op, FALSE, "raised")
    /\ UNCHANGED <<products, users, activity_log>>

lock_frame == <<sales, sale_payments, payment_seq, now, cart_items, dates_call, alloc_call, FAILED_LOGIN_ATTEMPTS, logged_user>>

\* a thread calls delete_product or delete_user
CallDelete ==
    \E t \in Threads, op \in {"delete_product", "delete_user"} :
       /\ Len(activity_log) + Cardinality(InFlight) < MaxLog
       /\ pc[t] = "idle"
       /\ Goto(t, "with")
       /\ frame' = [frame EXCEPT ![t] = [IdleFrame EXCEPT !.op = op, !.id = 1]]
       /\ UNCHANGED <<products, users, activity_log, result, db_lock>>
       /\ UNCHANGED lock_frame

\* the next statement of a thread inside delete_product or delete_user
DeleteStep(t) ==
    /\ \/ with_enter(t)
       \/ get_enter(t)
       \/ get_exit(t)
       \/ delete_row(t)
       \/ log_enter(t)
       \/ log_exit(t)
       \/ with_exit(t)
       \/ with_raise(t)
    /\ UNCHANGED lock_frame

NextLocks == CallDelete \/ \E t \in Threads : DeleteStep(t)

SpecLocks == Init /\ [][NextLocks]_vars

\* a thread that can take a step is scheduled in the end
SpecLocksFair == SpecLocks /\ \A t \in Threads : WF_vars(DeleteStep(t))

\* C30: no interleaving of the threads deadlocks on db_lock (while some
\* thread is inside an operation, some such thread can take its next step,
\* and a thread outside every operation does not hold the lock), and a
\* thread that holds db_lock releases it in the end, nested acquisitions
\* and raising statements included.
C30_LockReleased ==
    /\ []((InFlight # {}) => \E t \in InFlight : ENABLED DeleteStep(t))
    /\ [](\A t \in Threads : pc[t] = "idle" => ~Holds(t))
    /\ \A t \in Threads : Holds(t) ~> (db_lock.depth = 0)

\* a thread has left delete_product by an exception raised after the lock
\* was taken a second time, and the lock is free
C30_Witness ==
    /\ result.op \in {"delete_product", "delete_user"}
    /\ result.err = "raised"
    /\ db_lock.depth = 0
    /\ \E t \in Threads : pc[t] = "with"

====
